---- MODULE Spec2Model ----
(***************************************************************************)
(* A model of the Gomoku engine of src/ai_system.py: the move generator,   *)
(* the threat detector, the position evaluator, the alpha-beta search and  *)
(* the four difficulty tiers (class GomokuAI), and the session object      *)
(* HumanVsAI that owns the current tier and the AI's colour.               *)
(*                                                                         *)
(* Cells hold 0 (empty), 1 (black) or 2 (white), as in the source.  The    *)
(* grid is a function board[row][col] over 0 .. board_size-1.  Every       *)
(* operator that writes the grid in the source (a place followed by an     *)
(* undo) returns the grid it leaves behind next to its result, so that     *)
(* "the grid is restored" is something the model computes, not assumes.    *)
(***************************************************************************)
EXTENDS Integers, Sequences, FiniteSets, TLC

VARIABLES
    board,               \* the grid handed to the engine (a list of lists in the source)
    current_difficulty,  \* HumanVsAI.current_difficulty
    ai_color,            \* HumanVsAI.ai_color
    human_color,         \* HumanVsAI.human_color
    hv_max_depth,        \* HumanVsAI.max_depth
    call,                \* the last completed call: its name, arguments and entry grid
    ret,                 \* what that call returned (or the exception it raised)
    pc,                  \* position of the stepwise search: "idle", "enter", "loop", "done"
    stack,               \* the _minimax activation records of the stepwise search
    retval               \* value handed from a finished _minimax activation to its caller

vars == <<board, current_difficulty, ai_color, human_color, hv_max_depth,
          call, ret, pc, stack, retval>>

---------------------------------------------------------------------------
(* Bounds of the model *)

\* Side of the square grid.  The source fixes 15 (GomokuAI.board_size); the
\* model explores a smaller board of the same shape.
board_size == 5

\* Largest number of empty cells of a grid on which a searching tier is run.
MaxEmpty == 3

---------------------------------------------------------------------------
(* Values *)

\* math.inf, and -math.inf as -inf.  Larger than every score of the model.
inf == 2000000000

\* Expert's compared score is score + _position_weight, a float.  The model
\* keeps it in fixed point, in units of 1/WeightScale.
WeightScale == 100

\* Python's None where a move is expected: no (row, col) pair.
None == <<>>

Rows == 0 .. (board_size - 1)

Max(a, b) == IF a >= b THEN a ELSE b
Min(a, b) == IF a <= b THEN a ELSE b

\* The order of the nested loops "for i in range(size): for j in range(size)".
RowMajor ==
    [k \in 1 .. (board_size * board_size) |->
        <<(k - 1) \div board_size, (k - 1) % board_size>>]

\* board[row][col] = value
Place(b, pos, value) == [b EXCEPT ![pos[1]][pos[2]] = value]

\* Mutant of Undo: the placed stone is left on the grid.
UndoForgotten(b, pos) == b

\* board[row][col] = 0: the undo of a placement
Undo(b, pos) == Place(b, pos, 0)

directions == <<(<<0, 1>>), (<<1, 0>>), (<<1, 1>>), (<<1, -1>>)>>

---------------------------------------------------------------------------
(* Run counting and the win predicate *)

\* One "while 0 <= r < size and 0 <= c < size and board[r][c] == player" loop:
\* the number of consecutive stones of player from (r, c) on, stepping (dr, dc).
RECURSIVE RunFrom(_, _, _, _, _, _)
RunFrom(b, r, c, dr, dc, player) ==
    IF r \in Rows /\ c \in Rows /\ b[r][c] = player
    THEN 1 + RunFrom(b, r + dr, c + dc, dr, dc, player)
    ELSE 0

_count_consecutive(b, row, col, dr, dc, player) ==
    1 + RunFrom(b, row + dr, col + dc, dr, dc, player)
      + RunFrom(b, row - dr, col - dc, -dr, -dc, player)

\* Mutant of _check_five_in_row: the anti-diagonal is not looked at.
_check_five_in_row_three_directions(b, row, col, player) ==
    \E k \in 1 .. 3 :
        LET dr == directions[k][1]
            dc == directions[k][2]
        IN  1 + RunFrom(b, row + dr, col + dc, dr, dc, player)
              + RunFrom(b, row - dr, col - dc, -dr, -dc, player) >= 5

_check_five_in_row(b, row, col, player) ==
    \E k \in 1 .. 4 :
        LET dr == directions[k][1]
            dc == directions[k][2]
        IN  1 + RunFrom(b, row + dr, col + dc, dr, dc, player)
              + RunFrom(b, row - dr, col - dc, -dr, -dc, player) >= 5

\* Mutant of _is_game_over: only the stones of colour 1 are tested.
_is_game_over_one_colour(b) ==
    \E i \in Rows : \E j \in Rows :
        b[i][j] = 1 /\ _check_five_in_row(b, i, j, b[i][j])

_is_game_over(b) ==
    \E i \in Rows : \E j \in Rows :
        b[i][j] # 0 /\ _check_five_in_row(b, i, j, b[i][j])

---------------------------------------------------------------------------
(* Move generator *)

_get_empty_positions(b) ==
    SelectSeq(RowMajor, LAMBDA pos : b[pos[1]][pos[2]] = 0)

\* Mutant of _has_neighbors: only the eight adjacent cells are looked at.
_has_neighbors_adjacent(b, pos) ==
    LET row == pos[1]
        col == pos[2]
    IN  \E i \in Max(0, row - 1) .. (Min(board_size, row + 2) - 1) :
        \E j \in Max(0, col - 1) .. (Min(board_size, col + 2) - 1) :
            (i # row \/ j # col) /\ b[i][j] # 0

_has_neighbors(b, pos) ==
    LET row == pos[1]
        col == pos[2]
    IN  \E i \in Max(0, row - 2) .. (Min(board_size, row + 3) - 1) :
        \E j \in Max(0, col - 2) .. (Min(board_size, col + 3) - 1) :
            (i # row \/ j # col) /\ b[i][j] # 0

Abs(x) == IF x < 0 THEN -x ELSE x

\* Mutant of _get_candidate_moves: no fallback when no cell has a neighbour.
_get_candidate_moves_no_fallback(b) ==
    SelectSeq(_get_empty_positions(b), LAMBDA pos : _has_neighbors(b, pos))

_get_candidate_moves(b) ==
    LET empty_positions == _get_empty_positions(b)
        with_neighbors == SelectSeq(empty_positions, LAMBDA pos : _has_neighbors(b, pos))
        center == board_size \div 2
        candidates ==
            IF with_neighbors = <<>> /\ empty_positions # <<>>
            THEN SelectSeq(empty_positions,
                           LAMBDA pos : Abs(pos[1] - center) <= 2 /\ Abs(pos[2] - center) <= 2)
            ELSE with_neighbors
    IN  IF candidates # <<>> THEN candidates ELSE empty_positions

---------------------------------------------------------------------------
(* Threat detector.  Both scans place a stone, test, and undo; the grid    *)
(* they leave is part of their result.                                     *)

\* Mutant of WinScan: the early return leaves the tried stone on the grid.
RECURSIVE WinScanReturnBeforeUndo(_, _, _)
WinScanReturnBeforeUndo(b, player, k) ==
    IF k > Len(RowMajor) THEN [move |-> None, board |-> b]
    ELSE LET pos == RowMajor[k] IN
         IF b[pos[1]][pos[2]] = 0
         THEN LET placed == Place(b, pos, player) IN
              IF _check_five_in_row(placed, pos[1], pos[2], player)
              THEN [move |-> pos, board |-> placed]
              ELSE WinScanReturnBeforeUndo(Undo(placed, pos), player, k + 1)
         ELSE WinScanReturnBeforeUndo(b, player, k + 1)

RECURSIVE WinScan(_, _, _)
WinScan(b, player, k) ==
    IF k > Len(RowMajor) THEN [move |-> None, board |-> b]
    ELSE LET pos == RowMajor[k] IN
         IF b[pos[1]][pos[2]] = 0
         THEN LET placed == Place(b, pos, player) IN
              IF _check_five_in_row(placed, pos[1], pos[2], player)
              THEN [move |-> pos, board |-> Undo(placed, pos)]
              ELSE WinScan(Undo(placed, pos), player, k + 1)
         ELSE WinScan(b, player, k + 1)

_find_winning_move(b, player) == WinScan(b, player, 1)

_find_defensive_move(b, current_player) ==
    LET opponent == 3 - current_player
    IN  WinScan(b, opponent, 1)

---------------------------------------------------------------------------
(* Position evaluator *)

_evaluate_direction(b, row, col, dr, dc, player) ==
    LET count == _count_consecutive(b, row, col, dr, dc, player)
    IN  IF count >= 5 THEN 100000
        ELSE IF count = 4 THEN 10000
        ELSE IF count = 3 THEN 1000
        ELSE IF count = 2 THEN 100
        ELSE 0

_evaluate_position(b, row, col, player) ==
      _evaluate_direction(b, row, col, directions[1][1], directions[1][2], player)
    + _evaluate_direction(b, row, col, directions[2][1], directions[2][2], player)
    + _evaluate_direction(b, row, col, directions[3][1], directions[3][2], player)
    + _evaluate_direction(b, row, col, directions[4][1], directions[4][2], player)

\* Mutant of EvalCells: the opponent's stones are scored with the player's colour.
RECURSIVE EvalCellsWrongColour(_, _, _)
EvalCellsWrongColour(b, player, k) ==
    IF k > Len(RowMajor) THEN 0
    ELSE LET i == RowMajor[k][1]
             j == RowMajor[k][2]
             opponent == 3 - player
             here == IF b[i][j] = player THEN _evaluate_position(b, i, j, player)
                     ELSE IF b[i][j] = opponent THEN -_evaluate_position(b, i, j, player)
                     ELSE 0
         IN  here + EvalCellsWrongColour(b, player, k + 1)

RECURSIVE EvalCells(_, _, _)
EvalCells(b, player, k) ==
    IF k > Len(RowMajor) THEN 0
    ELSE LET i == RowMajor[k][1]
             j == RowMajor[k][2]
             opponent == 3 - player
             here == IF b[i][j] = player THEN _evaluate_position(b, i, j, player)
                     ELSE IF b[i][j] = opponent THEN -_evaluate_position(b, i, j, opponent)
                     ELSE 0
         IN  here + EvalCells(b, player, k + 1)

_evaluate_board(b, player) == EvalCells(b, player, 1)

\* Threat level of one candidate: place, look along the four directions, undo.
_evaluate_move_threat(b, move, player) ==
    LET row == move[1]
        col == move[2]
        placed == Place(b, move, player)
        Weight(k) ==
            LET count == _count_consecutive(placed, row, col,
                                            directions[k][1], directions[k][2], player)
            IN  IF count >= 4 THEN 1000
                ELSE IF count = 3 THEN 100
                ELSE IF count = 2 THEN 10
                ELSE 0
    IN  [threat_score |-> Weight(1) + Weight(2) + Weight(3) + Weight(4),
         board |-> Undo(placed, move)]

\* Integer square root by bisection: the largest s in lo .. hi with s * s <= x.
RECURSIVE ISqrtIn(_, _, _)
ISqrtIn(x, lo, hi) ==
    IF lo = hi THEN lo
    ELSE LET mid == (lo + hi + 1) \div 2
         IN  IF mid * mid <= x THEN ISqrtIn(x, mid, hi) ELSE ISqrtIn(x, lo, mid - 1)

\* (center - sqrt((row-center)^2 + (col-center)^2)) * 10, in units of
\* 1/WeightScale; the square root is cut to that resolution, which keeps the
\* order of the weights of any two cells.
_position_weight(row, col) ==
    LET center == board_size \div 2
        d2 == (row - center) * (row - center) + (col - center) * (col - center)
    IN  center * 10 * WeightScale - ISqrtIn(d2 * 10 * WeightScale * 10 * WeightScale, 0, 46340)

\* score += weight on a float: an infinite score stays infinite.
AddWeight(score, weight) ==
    IF score = inf \/ score = -inf THEN score ELSE score * WeightScale + weight

---------------------------------------------------------------------------
(* Expert candidate ordering *)

RECURSIVE ScoreMoves(_, _, _, _, _)
ScoreMoves(b, player, candidates, k, scored_moves) ==
    IF k > Len(candidates) THEN [scored_moves |-> scored_moves, board |-> b]
    ELSE LET t == _evaluate_move_threat(b, candidates[k], player)
         IN  ScoreMoves(t.board, player, candidates, k + 1,
                        Append(scored_moves, <<t.threat_score, candidates[k]>>))

\* list.sort(reverse=True, key=score): a stable sort, so entries of equal
\* score keep their order.  Insert(s, e) puts e after every entry whose score
\* is at least e's.
\* Mutant of InsertDesc: an entry goes before the entries of equal score.
RECURSIVE InsertDescBeforeEquals(_, _, _)
InsertDescBeforeEquals(s, e, k) ==
    IF k > Len(s) THEN Append(s, e)
    ELSE IF s[k][1] > e[1] THEN InsertDescBeforeEquals(s, e, k + 1)
    ELSE SubSeq(s, 1, k - 1) \o <<e>> \o SubSeq(s, k, Len(s))

RECURSIVE InsertDesc(_, _, _)
InsertDesc(s, e, k) ==
    IF k > Len(s) THEN Append(s, e)
    ELSE IF s[k][1] >= e[1] THEN InsertDesc(s, e, k + 1)
    ELSE SubSeq(s, 1, k - 1) \o <<e>> \o SubSeq(s, k, Len(s))

RECURSIVE SortDesc(_, _, _)
SortDesc(s, k, sorted) ==
    IF k > Len(s) THEN sorted ELSE SortDesc(s, k + 1, InsertDesc(sorted, s[k], 1))

\* Mutant of _get_priority_moves: the moves are ranked among all empty cells.
_get_priority_moves_of_all_cells(b, player) ==
    LET candidates == _get_empty_positions(b)
        scored == ScoreMoves(b, player, candidates, 1, <<>>)
        sorted == SortDesc(scored.scored_moves, 1, <<>>)
        top == SubSeq(sorted, 1, Min(10, Len(sorted)))
    IN  [moves |-> [k \in 1 .. Len(top) |-> top[k][2]], board |-> scored.board]

_get_priority_moves(b, player) ==
    LET candidates == _get_candidate_moves(b)
        scored == ScoreMoves(b, player, candidates, 1, <<>>)
        sorted == SortDesc(scored.scored_moves, 1, <<>>)
        top == SubSeq(sorted, 1, Min(10, Len(sorted)))
    IN  [moves |-> [k \in 1 .. Len(top) |-> top[k][2]], board |-> scored.board]

---------------------------------------------------------------------------
(* Search engine: minimax with alpha-beta pruning over place/undo.  The    *)
(* result carries the value, the grid left behind and the number of        *)
(* _minimax activations.                                                   *)

\* Mutant of Cutoff: the comparison is written the wrong way round.
CutoffReversed(alpha, beta) == alpha <= beta

\* if beta <= alpha: break
Cutoff(alpha, beta) == beta <= alpha

RECURSIVE _minimax(_, _, _, _, _, _)
RECURSIVE MaxLoop(_, _, _, _, _, _, _, _, _)
RECURSIVE MinLoop(_, _, _, _, _, _, _, _, _)

\* The "for move in candidates" loop of a maximizing node, from candidate k on.
MaxLoop(b, depth, player, alpha, beta, moves, k, max_eval, calls) ==
    IF k > Len(moves) THEN [val |-> max_eval, board |-> b, calls |-> calls]
    ELSE LET move == moves[k]
             r == _minimax(Place(b, move, player), depth - 1, FALSE, player, alpha, beta)
             undone == Undo(r.board, move)
             new_max == Max(max_eval, r.val)
             new_alpha == Max(alpha, r.val)
         IN  IF Cutoff(new_alpha, beta)
             THEN [val |-> new_max, board |-> undone, calls |-> calls + r.calls]
             ELSE MaxLoop(undone, depth, player, new_alpha, beta, moves, k + 1,
                          new_max, calls + r.calls)

\* The same loop of a minimizing node.
MinLoop(b, depth, player, alpha, beta, moves, k, min_eval, calls) ==
    IF k > Len(moves) THEN [val |-> min_eval, board |-> b, calls |-> calls]
    ELSE LET move == moves[k]
             opponent == 3 - player
             r == _minimax(Place(b, move, opponent), depth - 1, TRUE, player, alpha, beta)
             undone == Undo(r.board, move)
             new_min == Min(min_eval, r.val)
             new_beta == Min(beta, r.val)
         IN  IF Cutoff(alpha, new_beta)
             THEN [val |-> new_min, board |-> undone, calls |-> calls + r.calls]
             ELSE MinLoop(undone, depth, player, alpha, new_beta, moves, k + 1,
                          new_min, calls + r.calls)

_minimax(b, depth, is_maximizing, player, alpha, beta) ==
    IF depth = 0 \/ _is_game_over(b)
    THEN [val |-> _evaluate_board(b, player), board |-> b, calls |-> 1]
    ELSE IF is_maximizing
    THEN MaxLoop(b, depth, player, alpha, beta, _get_candidate_moves(b), 1, -inf, 1)
    ELSE MinLoop(b, depth, player, alpha, beta, _get_candidate_moves(b), 1, inf, 1)

---------------------------------------------------------------------------
(* Difficulty tiers.  A move result is [move, error, board, calls]: the    *)
(* move returned (None when the call raised), the exception raised         *)
(* ("none" when it returned), the grid left behind and the number of       *)
(* _minimax activations.                                                   *)

Returned(move, b, calls) ==
    [move |-> move, error |-> "none", board |-> b, calls |-> calls]

Raised(error, b, calls) ==
    [move |-> None, error |-> error, board |-> b, calls |-> calls]

\* The root loop of _intermediate_move, _advance_move and
\* _enhanced_minimax_move, from candidate k on; weighted adds _position_weight.
\* Mutant of RootLoop: a candidate of equal score replaces the best so far.
RECURSIVE RootLoopKeepsLast(_, _, _, _, _, _, _, _, _)
RootLoopKeepsLast(b, current_player, depth, weighted, moves, k, best_score, best_move, calls) ==
    IF k > Len(moves) THEN [best_move |-> best_move, board |-> b, calls |-> calls]
    ELSE LET move == moves[k]
             r == _minimax(Place(b, move, current_player), depth, FALSE,
                           current_player, -inf, inf)
             score == IF weighted
                      THEN AddWeight(r.val, _position_weight(move[1], move[2]))
                      ELSE r.val
             undone == Undo(r.board, move)
         IN  IF score >= best_score
             THEN RootLoopKeepsLast(undone, current_player, depth, weighted, moves, k + 1,
                                    score, move, calls + r.calls)
             ELSE RootLoopKeepsLast(undone, current_player, depth, weighted, moves, k + 1,
                                    best_score, best_move, calls + r.calls)

RECURSIVE RootLoop(_, _, _, _, _, _, _, _, _)
RootLoop(b, current_player, depth, weighted, moves, k, best_score, best_move, calls) ==
    IF k > Len(moves) THEN [best_move |-> best_move, board |-> b, calls |-> calls]
    ELSE LET move == moves[k]
             r == _minimax(Place(b, move, current_player), depth, FALSE,
                           current_player, -inf, inf)
             score == IF weighted
                      THEN AddWeight(r.val, _position_weight(move[1], move[2]))
                      ELSE r.val
             undone == Undo(r.board, move)
         IN  IF score > best_score
             THEN RootLoop(undone, current_player, depth, weighted, moves, k + 1,
                           score, move, calls + r.calls)
             ELSE RootLoop(undone, current_player, depth, weighted, moves, k + 1,
                           best_score, best_move, calls + r.calls)

\* Mutant of BestOrFirst: the move is returned as (col, row).
BestOrFirstSwapped(loop, candidate_moves) ==
    IF loop.best_move # None
    THEN [move |-> <<loop.best_move[2], loop.best_move[1]>>, error |-> "none",
          board |-> loop.board, calls |-> loop.calls]
    ELSE IF candidate_moves = <<>>
    THEN [move |-> None, error |-> "IndexError", board |-> loop.board, calls |-> loop.calls]
    ELSE [move |-> <<candidate_moves[1][2], candidate_moves[1][1]>>, error |-> "none",
          board |-> loop.board, calls |-> loop.calls]

\* return best_move or candidate_moves[0]
BestOrFirst(loop, candidate_moves) ==
    IF loop.best_move # None THEN Returned(loop.best_move, loop.board, loop.calls)
    ELSE IF candidate_moves = <<>> THEN Raised("IndexError", loop.board, loop.calls)
    ELSE Returned(candidate_moves[1], loop.board, loop.calls)

\* Mutant of _beginner_move: the random move is drawn among the candidate
\* moves of the searching tiers.
_beginner_move_among_candidates(b, current_player, defend, pick) ==
    LET empty_positions == _get_candidate_moves(b)
        defensive == _find_defensive_move(b, current_player)
        after == IF defend THEN defensive.board ELSE b
    IN  IF defend /\ defensive.move # None THEN Returned(defensive.move, after, 0)
        ELSE IF empty_positions = <<>> THEN Raised("IndexError", after, 0)
        ELSE Returned(empty_positions[Min(pick, Len(empty_positions))], after, 0)

\* defend: random.random() < 0.3;  pick: the index random.choice draws.
_beginner_move(b, current_player, defend, pick) ==
    LET empty_positions == _get_empty_positions(b)
        defensive == _find_defensive_move(b, current_player)
        after == IF defend THEN defensive.board ELSE b
    IN  IF defend /\ defensive.move # None THEN Returned(defensive.move, after, 0)
        ELSE IF empty_positions = <<>> THEN Raised("IndexError", after, 0)
        ELSE Returned(empty_positions[pick], after, 0)

\* Mutant of _intermediate_move: the engine remembers that it has answered
\* before and then answers with the first candidate, without searching.
_intermediate_move_remembering(b, current_player) ==
    LET candidate_moves == _get_candidate_moves(b)
    IN  IF call.name = "get_move"
        THEN BestOrFirst([best_move |-> None, board |-> b, calls |-> 0], candidate_moves)
        ELSE BestOrFirst(RootLoop(b, current_player, 2, FALSE, candidate_moves, 1,
                                  -inf, None, 0),
                         candidate_moves)

_intermediate_move(b, current_player) ==
    LET candidate_moves == _get_candidate_moves(b)
    IN  BestOrFirst(RootLoop(b, current_player, 2, FALSE, candidate_moves, 1, -inf, None, 0),
                    candidate_moves)

_advance_move(b, current_player) ==
    LET candidate_moves == _get_candidate_moves(b)
    IN  BestOrFirst(RootLoop(b, current_player, 4, FALSE, candidate_moves, 1, -inf, None, 0),
                    candidate_moves)

_enhanced_minimax_move(b, current_player) ==
    LET priority == _get_priority_moves(b, current_player)
    IN  BestOrFirst(RootLoop(priority.board, current_player, 6, TRUE, priority.moves, 1,
                             -inf, None, 0),
                    priority.moves)

\* Mutant of _expert_move: the block is looked for before the win.
_expert_move_block_first(b, current_player) ==
    LET defensive == _find_winning_move(b, 3 - current_player)
        winning == _find_winning_move(defensive.board, current_player)
    IN  IF defensive.move # None THEN Returned(defensive.move, defensive.board, 0)
        ELSE IF winning.move # None THEN Returned(winning.move, winning.board, 0)
        ELSE _enhanced_minimax_move(winning.board, current_player)

\* Mutant of _expert_move: the block branch returns the wrong variable.
_expert_move_wrong_variable(b, current_player) ==
    LET winning == _find_winning_move(b, current_player)
        defensive == _find_winning_move(winning.board, 3 - current_player)
    IN  IF winning.move # None THEN Returned(winning.move, winning.board, 0)
        ELSE IF defensive.move # None THEN Returned(winning.move, defensive.board, 0)
        ELSE _enhanced_minimax_move(defensive.board, current_player)

_expert_move(b, current_player) ==
    LET winning == _find_winning_move(b, current_player)
        defensive == _find_winning_move(winning.board, 3 - current_player)
    IN  IF winning.move # None THEN Returned(winning.move, winning.board, 0)
        ELSE IF defensive.move # None THEN Returned(defensive.move, defensive.board, 0)
        ELSE _enhanced_minimax_move(defensive.board, current_player)

\* depth_map of _get_max_depth: the depth GomokuAI binds to its tier.
_get_max_depth(difficulty) ==
    IF difficulty = "beginner" THEN 0
    ELSE IF difficulty = "intermediate" THEN 2
    ELSE IF difficulty = "advance" THEN 4
    ELSE IF difficulty = "expert" THEN 6
    ELSE 2

get_move(difficulty, b, current_player, defend, pick) ==
    IF difficulty = "beginner" THEN _beginner_move(b, current_player, defend, pick)
    ELSE IF difficulty = "intermediate" THEN _intermediate_move(b, current_player)
    ELSE IF difficulty = "advance" THEN _advance_move(b, current_player)
    ELSE _expert_move(b, current_player)

---------------------------------------------------------------------------
(* The grids the model starts from.  A grid is a ground, stones laid along *)
(* whole lines of the board, and holes punched into it.  The dense ground  *)
(* is a full board without any run longer than two, so that few cells are  *)
(* empty and a search of any depth is small; the bare ground is the empty  *)
(* board.  A segment grid is the empty board with one run of four.         *)

DenseCell(r, c) == IF (c + 2 * r) % 4 < 2 THEN 1 ELSE 2

RowLine(i) == {<<i, j>> : j \in Rows}
ColLine(j) == {<<i, j>> : i \in Rows}
DiagLine == {<<i, i>> : i \in Rows}
AntiLine == {<<i, board_size - 1 - i>> : i \in Rows}

\* [black |-> cells laid black, white |-> cells laid white]
Layouts ==
    { [black |-> {}, white |-> {}],
      [black |-> RowLine(1), white |-> {}],
      [black |-> {}, white |-> ColLine(3)],
      [black |-> RowLine(1), white |-> RowLine(3)],
      [black |-> DiagLine, white |-> {}],
      [black |-> {}, white |-> AntiLine],
      [black |-> RowLine(1) \cup ColLine(3), white |-> {}] }

\* Every line above passes through two of these cells; the holes are punched
\* among them.
HoleSites == {<<1, 1>>, <<1, 3>>, <<3, 1>>, <<3, 3>>}

HoleSets == {h \in SUBSET HoleSites : Cardinality(h) <= MaxEmpty}

MakeGrid(dense, layout, holes) ==
    [r \in Rows |-> [c \in Rows |->
        IF <<r, c>> \in holes THEN 0
        ELSE IF <<r, c>> \in layout.white THEN 2
        ELSE IF <<r, c>> \in layout.black THEN 1
        ELSE IF dense THEN DenseCell(r, c)
        ELSE 0]]

\* Dense grids: at most MaxEmpty empty cells.
SearchGrids == {MakeGrid(TRUE, layout, holes) : layout \in Layouts, holes \in HoleSets}

\* Bare grids: a few stones, most cells empty.
OpenGrids == {MakeGrid(FALSE, layout, holes) : layout \in Layouts, holes \in HoleSets}

FewHoleOpenGrids ==
    {MakeGrid(FALSE, layout, holes) : layout \in Layouts, holes \in {{}, {<<1, 1>>}}}

\* Four stones of one colour from start on along direction k, and, with cap,
\* a stone of the other colour on the cell before them.
SegmentCells(start, k) ==
    {<<start[1] + t * directions[k][1], start[2] + t * directions[k][2]>> : t \in 0 .. 3}

SegmentGrid(start, k, colour, cap) ==
    LET before == <<start[1] - directions[k][1], start[2] - directions[k][2]>>
    IN  [r \in Rows |-> [c \in Rows |->
            IF <<r, c>> \in SegmentCells(start, k) THEN colour
            ELSE IF cap /\ <<r, c>> = before THEN 3 - colour
            ELSE 0]]

SegmentGrids ==
    {SegmentGrid(start, k, colour, cap) :
        start \in {s \in Rows \X Rows : \E k \in 1 .. 4 : SegmentCells(s, k) \subseteq Rows \X Rows},
        k \in 1 .. 4, colour \in {1, 2}, cap \in BOOLEAN}

---------------------------------------------------------------------------
(* The session (class HumanVsAI) and the calls on it.  call and ret record *)
(* the last completed call of the engine and what it returned.             *)

Difficulties == {"beginner", "intermediate", "advance", "expert"}

NoCall == [name |-> "none"]
NoRet == [move |-> None, error |-> "none", calls |-> 0]

\* HumanVsAI.__init__, around any grid of the given family.
NewSession(grids) ==
    /\ board \in grids
    /\ current_difficulty = "intermediate"
    /\ ai_color = 2
    /\ human_color = 1
    /\ hv_max_depth = 2
    /\ call = NoCall
    /\ ret = NoRet
    /\ pc = "idle"
    /\ stack = <<>>
    /\ retval = 0

Init == NewSession(SearchGrids \cup FewHoleOpenGrids)

\* set_difficulty(difficulty): AIDifficulty(difficulty.lower()) raises
\* ValueError for a string that names no tier, and the tier is kept.
set_difficulty(difficulty) ==
    /\ current_difficulty' =
           IF difficulty \in Difficulties THEN difficulty ELSE current_difficulty
    /\ call' = NoCall
    /\ ret' = NoRet
    /\ UNCHANGED <<board, ai_color, human_color, hv_max_depth, pc, stack, retval>>

set_ai_color(color) ==
    /\ IF color = "black"
       THEN ai_color' = 1 /\ human_color' = 2
       ELSE ai_color' = 2 /\ human_color' = 1
    /\ call' = NoCall
    /\ ret' = NoRet
    /\ UNCHANGED <<board, current_difficulty, hv_max_depth, pc, stack, retval>>

\* Whether get_move of this tier on this grid runs the search.
Searches(difficulty, b, current_player) ==
    \/ difficulty \in {"intermediate", "advance"}
    \/ /\ difficulty = "expert"
       /\ _find_winning_move(b, current_player).move = None
       /\ _find_winning_move(b, 3 - current_player).move = None

\* The random source is read by _beginner_move alone: random.random() < 0.3
\* (defend) and the index random.choice draws among the empty cells (pick).
RandomDraws(difficulty) == IF difficulty = "beginner" THEN BOOLEAN ELSE {FALSE}

RandomPicks(difficulty, b) ==
    IF difficulty = "beginner" THEN 1 .. Max(1, Len(_get_empty_positions(b))) ELSE {1}

\* get_ai_move(board): GomokuAI(self.current_difficulty).get_move(board, self.ai_color).
\* The search is explored on grids of at most MaxEmpty empty cells.
get_ai_move ==
    /\ Searches(current_difficulty, board, ai_color)
           => Len(_get_empty_positions(board)) <= MaxEmpty
    /\ \E defend \in RandomDraws(current_difficulty) :
       \E pick \in RandomPicks(current_difficulty, board) :
          LET result == get_move(current_difficulty, board, ai_color, defend, pick)
          IN  /\ board' = result.board
              /\ call' = [name |-> "get_move", difficulty |-> current_difficulty,
                          current_player |-> ai_color, entry |-> board]
              /\ ret' = [move |-> result.move, error |-> result.error,
                         calls |-> result.calls]
    /\ UNCHANGED <<current_difficulty, ai_color, human_color, hv_max_depth,
                   pc, stack, retval>>

Next ==
    \/ \E difficulty \in Difficulties \cup {"hard"} : set_difficulty(difficulty)
    \/ \E color \in {"black", "white"} : set_ai_color(color)
    \/ get_ai_move

Spec == Init /\ [][Next]_vars

---------------------------------------------------------------------------
(* The queries of the engine applied to a grid: the threat detector and    *)
(* the move generator.                                                     *)

InitQuery == NewSession(SearchGrids \cup OpenGrids \cup SegmentGrids)

find_winning_move(player) ==
    LET result == _find_winning_move(board, player)
    IN  /\ board' = result.board
        /\ call' = [name |-> "_find_winning_move", player |-> player, entry |-> board]
        /\ ret' = [move |-> result.move]
        /\ UNCHANGED <<current_difficulty, ai_color, human_color, hv_max_depth,
                       pc, stack, retval>>

get_candidate_moves ==
    /\ call' = [name |-> "_get_candidate_moves", entry |-> board]
    /\ ret' = [moves |-> _get_candidate_moves(board)]
    /\ UNCHANGED <<board, current_difficulty, ai_color, human_color, hv_max_depth,
                   pc, stack, retval>>

get_priority_moves(player) ==
    LET result == _get_priority_moves(board, player)
    IN  /\ board' = result.board
        /\ call' = [name |-> "_get_priority_moves", player |-> player, entry |-> board]
        /\ ret' = [moves |-> result.moves]
        /\ UNCHANGED <<current_difficulty, ai_color, human_color, hv_max_depth,
                       pc, stack, retval>>

evaluate_board(player) ==
    /\ call' = [name |-> "_evaluate_board", player |-> player, entry |-> board]
    /\ ret' = [val |-> _evaluate_board(board, player)]
    /\ UNCHANGED <<board, current_difficulty, ai_color, human_color, hv_max_depth,
                   pc, stack, retval>>

NextQuery ==
    \/ \E player \in {1, 2} : find_winning_move(player)
    \/ get_candidate_moves
    \/ \E player \in {1, 2} : get_priority_moves(player)
    \/ \E player \in {1, 2} : evaluate_board(player)

SpecQuery == InitQuery /\ [][NextQuery]_vars
---------------------------------------------------------------------------
(* The suggestion helpers of src/tools/evaluation.py.  They work on the    *)
(* grid board.board of the game object, of side board.size, with the same  *)
(* place / test / undo pattern as the threat detector; like it they return *)
(* the grid they leave behind next to their result.                        *)

\* for i in range(1, 5): ... else: break -- at most four cells are looked at
RunUpTo4(b, r, c, dr, dc, player) == Min(4, RunFrom(b, r, c, dr, dc, player))

_check_pattern_at(b, row, col, player, target_count) ==
    \E k \in 1 .. 4 :
        LET dr == directions[k][1]
            dc == directions[k][2]
        IN  1 + RunUpTo4(b, row + dr, col + dc, dr, dc, player)
              + RunUpTo4(b, row - dr, col - dc, -dr, -dc, player) >= target_count

\* board._check_win(row, col) of the game object: whether the stone on
\* (row, col) is part of a run of five or more.
_check_win(b, row, col) == _check_five_in_row(b, row, col, b[row][col])

\* The scan shared by _find_threats (target_count 4) and
\* _find_attacking_moves (target_count 3), from cell k on.
RECURSIVE PatternScan(_, _, _, _, _)
PatternScan(b, player, target_count, k, found) ==
    IF k > Len(RowMajor) THEN [moves |-> found, board |-> b]
    ELSE LET pos == RowMajor[k] IN
         IF b[pos[1]][pos[2]] = 0
         THEN LET placed == Place(b, pos, player)
                  hit == _check_pattern_at(placed, pos[1], pos[2], player, target_count)
              IN  PatternScan(Undo(placed, pos), player, target_count, k + 1,
                              IF hit THEN Append(found, pos) ELSE found)
         ELSE PatternScan(b, player, target_count, k + 1, found)

\* The scan shared by _find_winning_moves and _find_blocking_moves.
RECURSIVE CheckWinScan(_, _, _, _)
CheckWinScan(b, stone, k, found) ==
    IF k > Len(RowMajor) THEN [moves |-> found, board |-> b]
    ELSE LET pos == RowMajor[k] IN
         IF b[pos[1]][pos[2]] = 0
         THEN LET placed == Place(b, pos, stone)
                  hit == _check_win(placed, pos[1], pos[2])
              IN  CheckWinScan(Undo(placed, pos), stone, k + 1,
                               IF hit THEN Append(found, pos) ELSE found)
         ELSE CheckWinScan(b, stone, k + 1, found)

_find_threats(b, player) == PatternScan(b, player, 4, 1, <<>>)

_find_attacking_moves(b, player) == PatternScan(b, player, 3, 1, <<>>)

\* current_player: board.current_player of the game object
_find_winning_moves(b, current_player) == CheckWinScan(b, current_player, 1, <<>>)

_find_blocking_moves(b, opponent) == CheckWinScan(b, opponent, 1, <<>>)

---------------------------------------------------------------------------
(* The read-only queries (specification SpecReadOnly).  Each behaviour is  *)
(* one query applied to one grid.                                          *)

find_defensive_move(current_player) ==
    LET result == _find_defensive_move(board, current_player)
    IN  /\ call = NoCall
        /\ board' = result.board
        /\ call' = [name |-> "_find_defensive_move", player |-> current_player,
                    entry |-> board]
        /\ ret' = [move |-> result.move]
        /\ UNCHANGED <<current_difficulty, ai_color, human_color, hv_max_depth,
                       pc, stack, retval>>

\* _evaluate_move_threat(board, move, player), called as _get_priority_moves
\* calls it: for a move of _get_candidate_moves(board).
evaluate_move_threat(k, player) ==
    /\ call = NoCall
    /\ k <= Len(_get_candidate_moves(board))
    /\ LET move == _get_candidate_moves(board)[k]
           result == _evaluate_move_threat(board, move, player)
       IN  /\ board' = result.board
           /\ call' = [name |-> "_evaluate_move_threat", move |-> move,
                       player |-> player, entry |-> board]
           /\ ret' = [threat_score |-> result.threat_score]
    /\ UNCHANGED <<current_difficulty, ai_color, human_color, hv_max_depth,
                   pc, stack, retval>>

\* One of the four helpers of evaluation.py, which all return a list of moves.
suggestion_query(name, player) ==
    LET result == IF name = "_find_threats" THEN _find_threats(board, player)
                  ELSE IF name = "_find_winning_moves" THEN _find_winning_moves(board, player)
                  ELSE IF name = "_find_blocking_moves" THEN _find_blocking_moves(board, player)
                  ELSE _find_attacking_moves(board, player)
    IN  /\ call = NoCall
        /\ board' = result.board
        /\ call' = [name |-> name, player |-> player, entry |-> board]
        /\ ret' = [moves |-> result.moves]
        /\ UNCHANGED <<current_difficulty, ai_color, human_color, hv_max_depth,
                       pc, stack, retval>>

SuggestionQueries ==
    {"_find_threats", "_find_winning_moves", "_find_blocking_moves", "_find_attacking_moves"}

NextReadOnly ==
    \/ \E player \in {1, 2} : call = NoCall /\ find_winning_move(player)
    \/ \E player \in {1, 2} : find_defensive_move(player)
    \/ \E k \in 1 .. (board_size * board_size), player \in {1, 2} :
          evaluate_move_threat(k, player)
    \/ \E name \in SuggestionQueries, player \in {1, 2} : suggestion_query(name, player)

SpecReadOnly == InitQuery /\ [][NextReadOnly]_vars

---------------------------------------------------------------------------
(* The search, step by step (specification SpecSearch).  _minimax runs as  *)
(* a stack of activation records over the one grid; every step is one      *)
(* stretch of its code between two calls or returns.  ret counts the       *)
(* activations (calls) and the pruning breaks (cuts) of the running call.  *)

\* Largest depth a stepwise search is started with.
MaxDepth == 3

SearchLayouts ==
    { [black |-> {}, white |-> {}],
      [black |-> RowLine(1), white |-> RowLine(3)] }

\* The (alpha, beta) windows a search is started with.
Windows == { <<-inf, inf>>, <<0, inf>>, <<-inf, 0>> }

InitSearch ==
    NewSession({MakeGrid(TRUE, layout, holes) : layout \in SearchLayouts, holes \in HoleSets})

Frame(depth, is_maximizing, player, alpha, beta) ==
    [depth |-> depth, is_maximizing |-> is_maximizing, player |-> player,
     alpha |-> alpha, beta |-> beta, best |-> 0, moves |-> <<>>, k |-> 0]

Top == stack[Len(stack)]
Pop == SubSeq(stack, 1, Len(stack) - 1)
ReplaceTop(frame) == [stack EXCEPT ![Len(stack)] = frame]

\* The colour a frame places: player when maximizing, else 3 - player.
Mover(frame) == IF frame.is_maximizing THEN frame.player ELSE 3 - frame.player

session == <<current_difficulty, ai_color, human_color, hv_max_depth>>

\* A caller invokes _minimax(board, depth, is_maximizing, player, alpha, beta).
search_call(depth, is_maximizing, player, alpha, beta) ==
    /\ pc = "idle"
    /\ stack' = <<Frame(depth, is_maximizing, player, alpha, beta)>>
    /\ pc' = "enter"
    /\ call' = [name |-> "_minimax", depth |-> depth, is_maximizing |-> is_maximizing,
                player |-> player, alpha |-> alpha, beta |-> beta, entry |-> board]
    /\ ret' = [val |-> 0, calls |-> 0, cuts |-> 0]
    /\ UNCHANGED <<board, session, retval>>

\* if depth == 0 or self._is_game_over(board): return self._evaluate_board(board, player)
search_terminal ==
    /\ pc = "enter"
    /\ Top.depth = 0 \/ _is_game_over(board)
    /\ retval' = _evaluate_board(board, Top.player)
    /\ stack' = Pop
    /\ pc' = "return"
    /\ ret' = [ret EXCEPT !.calls = @ + 1]
    /\ UNCHANGED <<board, session, call>>

\* max_eval = -math.inf (min_eval = math.inf); the candidates of the loop
search_expand ==
    /\ pc = "enter"
    /\ ~(Top.depth = 0 \/ _is_game_over(board))
    /\ stack' = ReplaceTop([Top EXCEPT !.best = IF Top.is_maximizing THEN -inf ELSE inf,
                                       !.moves = _get_candidate_moves(board),
                                       !.k = 1])
    /\ pc' = "loop"
    /\ ret' = [ret EXCEPT !.calls = @ + 1]
    /\ UNCHANGED <<board, session, call, retval>>

\* Loop body up to the recursive call: place the mover's stone and recurse.
search_descend ==
    /\ pc = "loop"
    /\ Top.k <= Len(Top.moves)
    /\ board' = Place(board, Top.moves[Top.k], Mover(Top))
    /\ stack' = Append(stack, Frame(Top.depth - 1, ~Top.is_maximizing, Top.player,
                                    Top.alpha, Top.beta))
    /\ pc' = "enter"
    /\ UNCHANGED <<session, call, ret, retval>>

\* The loop ran out of candidates: return max_eval (min_eval).
search_exhausted ==
    /\ pc = "loop"
    /\ Top.k > Len(Top.moves)
    /\ retval' = Top.best
    /\ stack' = Pop
    /\ pc' = "return"
    /\ UNCHANGED <<board, session, call, ret>>

\* What a frame becomes when its recursive call returns eval.
AfterEval(frame, eval) ==
    IF frame.is_maximizing
    THEN [frame EXCEPT !.best = Max(frame.best, eval), !.alpha = Max(frame.alpha, eval)]
    ELSE [frame EXCEPT !.best = Min(frame.best, eval), !.beta = Min(frame.beta, eval)]

\* Loop body after the recursive call, no break: undo, update, next candidate.
search_continue ==
    /\ pc = "return"
    /\ stack # <<>>
    /\ ~Cutoff(AfterEval(Top, retval).alpha, AfterEval(Top, retval).beta)
    /\ board' = Undo(board, Top.moves[Top.k])
    /\ stack' = ReplaceTop([AfterEval(Top, retval) EXCEPT !.k = @ + 1])
    /\ pc' = "loop"
    /\ UNCHANGED <<session, call, ret, retval>>

\* Mutant of search_prune: the break is taken before the undo.
search_prune_before_undo ==
    /\ pc = "return"
    /\ stack # <<>>
    /\ Cutoff(AfterEval(Top, retval).alpha, AfterEval(Top, retval).beta)
    /\ retval' = AfterEval(Top, retval).best
    /\ stack' = Pop
    /\ pc' = "return"
    /\ ret' = [ret EXCEPT !.cuts = @ + 1]
    /\ UNCHANGED <<board, session, call>>

\* Loop body after the recursive call, with the break: undo, update,
\* "if beta <= alpha: break", return max_eval (min_eval).
search_prune ==
    /\ pc = "return"
    /\ stack # <<>>
    /\ Cutoff(AfterEval(Top, retval).alpha, AfterEval(Top, retval).beta)
    /\ board' = Undo(board, Top.moves[Top.k])
    /\ retval' = AfterEval(Top, retval).best
    /\ stack' = Pop
    /\ pc' = "return"
    /\ ret' = [ret EXCEPT !.cuts = @ + 1]
    /\ UNCHANGED <<session, call>>

\* The outermost activation returns to its caller.
search_finish ==
    /\ pc = "return"
    /\ stack = <<>>
    /\ ret' = [ret EXCEPT !.val = retval]
    /\ pc' = "idle"
    /\ UNCHANGED <<board, session, call, stack, retval>>

NextSearch ==
    \/ \E depth \in 0 .. MaxDepth, is_maximizing \in BOOLEAN, player \in {1, 2},
          window \in Windows :
          search_call(depth, is_maximizing, player, window[1], window[2])
    \/ search_terminal
    \/ search_expand
    \/ search_descend
    \/ search_exhausted
    \/ search_continue
    \/ search_prune
    \/ search_finish

SpecSearch == InitSearch /\ [][NextSearch]_vars

---------------------------------------------------------------------------
(* The engine called directly (specification SpecEngine): a caller builds  *)
(* GomokuAI(difficulty) and calls get_move(board, current_player) with a   *)
(* player and a grid of its own choosing.  The engine reads the cells      *)
(* 0 .. board_size-1 of whatever grid it is handed.                        *)

\* A grid one row and one column larger than the engine's board.
Oversize(g) ==
    [r \in 0 .. board_size |-> [c \in 0 .. board_size |->
        IF r \in Rows /\ c \in Rows THEN g[r][c] ELSE 0]]

\* Dense grids with one empty cell fewer than the searching tiers are given
\* elsewhere: a stone of colour 0 fills no cell, and the search tree of such a
\* player does not narrow with depth.
EngineGrids ==
    LET fitting == {MakeGrid(TRUE, layout, holes) :
                       layout \in SearchLayouts,
                       holes \in {h \in HoleSets : Cardinality(h) < MaxEmpty}}
    IN  fitting \cup {Oversize(g) : g \in fitting}

InitEngine == NewSession(EngineGrids)

\* GomokuAI(AIDifficulty(difficulty)).get_move(board, current_player), the
\* one call made on the engine object just built.
engine_get_move(difficulty, current_player) ==
    /\ call = NoCall
    /\ \E defend \in RandomDraws(difficulty) :
       \E pick \in RandomPicks(difficulty, board) :
          LET result == get_move(difficulty, board, current_player, defend, pick)
          IN  /\ board' = result.board
              /\ call' = [name |-> "get_move", difficulty |-> difficulty,
                          current_player |-> current_player, entry |-> board]
              /\ ret' = [move |-> result.move, error |-> result.error,
                         calls |-> result.calls]
    /\ UNCHANGED <<current_difficulty, ai_color, human_color, hv_max_depth,
                   pc, stack, retval>>

NextEngine ==
    \E difficulty \in Difficulties, current_player \in 0 .. 3 :
        engine_get_move(difficulty, current_player)

SpecEngine == InitEngine /\ [][NextEngine]_vars

---------------------------------------------------------------------------
(* The root of a searching tier, step by step (specification SpecRoot).    *)
(* The root loop of _intermediate_move, _advance_move and                  *)
(* _enhanced_minimax_move places a stone, calls _minimax, undoes the stone *)
(* and compares.  Here the value _minimax returns is any of SearchValues:  *)
(* a grid with many empty cells, the empty board among them, is far beyond *)
(* an explicit search of depth 2 to 6, and which candidate the root keeps  *)
(* depends on the order of the values only.  Each behaviour is one call.   *)

\* Values _minimax may hand back: a loss without reply, two finite scores.
SearchValues == {-inf, 0, 100}

CappedRow(r, colour) == SegmentGrid(<<r, 1>>, 1, colour, TRUE)

RootGrids ==
    FewHoleOpenGrids
        \cup {MakeGrid(TRUE, layout, holes) : layout \in SearchLayouts, holes \in HoleSets}
        \cup {CappedRow(r, colour) : r \in {0, board_size - 1}, colour \in {1, 2}}

InitRoot == NewSession(RootGrids)

\* Whether _expert_move answers from a shortcut.
Shortcut(difficulty, b, current_player) ==
    /\ difficulty = "expert"
    /\ \/ _find_winning_move(b, current_player).move # None
       \/ _find_winning_move(b, 3 - current_player).move # None

\* The candidate list the root loop of a tier runs over.
RootMoves(difficulty, b, current_player) ==
    IF difficulty = "expert" THEN _get_priority_moves(b, current_player).moves
    ELSE _get_candidate_moves(b)

\* get_move of Expert returns the winning or the blocking cell.
root_shortcut(current_player) ==
    /\ pc = "idle" /\ call = NoCall
    /\ Shortcut("expert", board, current_player)
    /\ LET result == _expert_move(board, current_player)
       IN  /\ board' = result.board
           /\ ret' = [move |-> result.move, error |-> result.error, calls |-> result.calls]
    /\ call' = [name |-> "get_move", difficulty |-> "expert",
                current_player |-> current_player, entry |-> board, shortcut |-> TRUE]
    /\ UNCHANGED <<session, pc, stack, retval>>

\* best_score = -math.inf; best_move = None; the candidates of the loop
root_start(difficulty, current_player) ==
    /\ pc = "idle" /\ call = NoCall
    /\ difficulty \in {"intermediate", "advance", "expert"}
    /\ ~Shortcut(difficulty, board, current_player)
    /\ stack' = <<[moves |-> RootMoves(difficulty, board, current_player), k |-> 1,
                   best_score |-> -inf, best_move |-> None,
                   weighted |-> (difficulty = "expert")]>>
    /\ pc' = "root"
    /\ call' = [name |-> "get_move", difficulty |-> difficulty,
                current_player |-> current_player, entry |-> board, shortcut |-> FALSE]
    /\ ret' = NoRet
    /\ UNCHANGED <<board, session, retval>>

\* One turn of the loop: place, score = self._minimax(...), (add the position
\* weight,) undo, "if score > best_score".
root_try ==
    /\ pc = "root"
    /\ Top.k <= Len(Top.moves)
    /\ \E val \in SearchValues :
          LET move == Top.moves[Top.k]
              score == IF Top.weighted
                       THEN AddWeight(val, _position_weight(move[1], move[2]))
                       ELSE val
              better == score > Top.best_score
          IN  /\ board' = Undo(Place(board, move, call.current_player), move)
              /\ retval' = val
              /\ stack' = ReplaceTop([Top EXCEPT
                              !.k = @ + 1,
                              !.best_score = IF better THEN score ELSE @,
                              !.best_move = IF better THEN move ELSE @])
    /\ UNCHANGED <<session, call, ret, pc>>

\* return best_move or candidate_moves[0]
root_return ==
    /\ pc = "root"
    /\ Top.k > Len(Top.moves)
    /\ LET result == BestOrFirst([best_move |-> Top.best_move, board |-> board, calls |-> 0],
                                 Top.moves)
       IN  /\ board' = result.board
           /\ ret' = [move |-> result.move, error |-> result.error, calls |-> result.calls]
    /\ pc' = "idle"
    /\ stack' = <<>>
    /\ UNCHANGED <<session, call, retval>>

NextRoot ==
    \/ \E current_player \in {1, 2} : root_shortcut(current_player)
    \/ \E difficulty \in Difficulties, current_player \in {1, 2} :
          root_start(difficulty, current_player)
    \/ root_try
    \/ root_return

SpecRoot == InitRoot /\ [][NextRoot]_vars

---------------------------------------------------------------------------
(* Properties of get_move (specification Spec) *)

HasEmpty(b) == \E r \in Rows : \E c \in Rows : b[r][c] = 0

IsCell(move) == move \in Rows \X Rows

GetMoveDone == call.name = "get_move"

\* C1: on a grid with at least one empty cell, get_move of every tier and
\* player returns the coordinates of a cell that is empty in the grid passed in.
C1_ReturnsEmptyCell ==
    (GetMoveDone /\ HasEmpty(call.entry)) =>
        /\ ret.error = "none"
        /\ IsCell(ret.move)
        /\ call.entry[ret.move[1]][ret.move[2]] = 0

\* C1 witness: an expert call that went through the search and returned a move.
C1_Witness ==
    /\ GetMoveDone
    /\ call.difficulty = "expert"
    /\ ret.calls > 0
    /\ IsCell(ret.move)

\* C2: when get_move finishes, by returning or by raising, every cell of the
\* grid has the value it had when get_move was called.
C2_GridUnchanged == GetMoveDone => board = call.entry

\* C2 witness: a finished call whose search placed and took back stones at
\* three plies at least.
C2_Witness ==
    /\ GetMoveDone
    /\ ret.calls >= 10
    /\ board = call.entry

\* C5: expert tier: when the side to move has an immediate winning cell,
\* get_move returns the cell _find_winning_move finds and never enters _minimax.
C5_WinShortcut ==
    (GetMoveDone /\ call.difficulty = "expert") =>
        LET winning == _find_winning_move(call.entry, call.current_player).move
        IN  winning # None => (ret.move = winning /\ ret.calls = 0)

\* C5 witness: an expert call on a grid where both sides have a winning cell.
C5_Witness ==
    /\ GetMoveDone
    /\ call.difficulty = "expert"
    /\ _find_winning_move(call.entry, call.current_player).move # None
    /\ _find_winning_move(call.entry, 3 - call.current_player).move # None
    /\ ret.calls = 0

\* C6: expert tier: when the side to move has no immediate winning cell and
\* the opponent has one, get_move returns the opponent's first winning cell
\* without entering _minimax; when both have one, the own win is returned.
C6_BlockShortcut ==
    (GetMoveDone /\ call.difficulty = "expert") =>
        LET winning == _find_winning_move(call.entry, call.current_player).move
            blocking == _find_winning_move(call.entry, 3 - call.current_player).move
        IN  /\ (winning = None /\ blocking # None) => (ret.move = blocking /\ ret.calls = 0)
            /\ (winning # None /\ blocking # None) => ret.move = winning

\* C6 witness: an expert call that returned the blocking cell.
C6_Witness ==
    /\ GetMoveDone
    /\ call.difficulty = "expert"
    /\ _find_winning_move(call.entry, call.current_player).move = None
    /\ ret.move # None
    /\ ret.move = _find_winning_move(call.entry, 3 - call.current_player).move

C10_ExhaustedBoardSignalled ==
    (GetMoveDone /\ ~HasEmpty(call.entry)) =>
        (ret.error # "none" /\ ret.error # "IndexError")

---------------------------------------------------------------------------
(* Properties of the stepwise search (specification SpecSearch) *)

SearchDone == pc = "idle" /\ call.name = "_minimax"

\* The stepwise search and the operator _minimax are the same function.
SearchAgrees ==
    SearchDone =>
        LET r == _minimax(call.entry, call.depth, call.is_maximizing, call.player,
                          call.alpha, call.beta)
        IN  ret.val = r.val /\ ret.calls = r.calls /\ board = r.board

\* The entry grid with the stones of the current path: one per activation
\* that is inside its recursive call or has it just returned.
RECURSIVE PathGrid(_, _)
PathGrid(b, i) ==
    IF i > Len(stack) THEN b
    ELSE IF i < Len(stack) \/ pc = "return"
         THEN PathGrid(Place(b, stack[i].moves[stack[i].k], Mover(stack[i])), i + 1)
         ELSE PathGrid(b, i + 1)

\* C3: when _minimax returns, also after a break on beta <= alpha, the grid
\* is cell for cell the grid on entry; at every point of the recursion it
\* differs from the entry grid only in the cells placed along the current path.
C3_MakeUndo ==
    /\ SearchDone => board = call.entry
    /\ pc # "idle" => board = PathGrid(call.entry, 1)

\* C3 witness: a finished search that pruned.
C3_Witness == SearchDone /\ ret.cuts > 0 /\ board = call.entry

\* Minimax over the same candidates and leaf evaluation, without alpha and
\* beta: every candidate of every node is searched.
RECURSIVE PlainMinimax(_, _, _, _)
RECURSIVE PlainBest(_, _, _, _, _, _)
PlainBest(b, depth, is_maximizing, player, moves, k) ==
    IF k > Len(moves) THEN (IF is_maximizing THEN -inf ELSE inf)
    ELSE LET mover == IF is_maximizing THEN player ELSE 3 - player
             here == PlainMinimax(Place(b, moves[k], mover), depth - 1, ~is_maximizing, player)
             rest == PlainBest(b, depth, is_maximizing, player, moves, k + 1)
         IN  IF is_maximizing THEN Max(here, rest) ELSE Min(here, rest)

PlainMinimax(b, depth, is_maximizing, player) ==
    IF depth = 0 \/ _is_game_over(b) THEN _evaluate_board(b, player)
    ELSE PlainBest(b, depth, is_maximizing, player, _get_candidate_moves(b), 1)

\* C8: called with the full window (-inf, inf) at depth <= 3, _minimax
\* returns the value of the exhaustive minimax that never prunes.
C8_PruningExact ==
    (SearchDone /\ call.alpha = -inf /\ call.beta = inf) =>
        ret.val = PlainMinimax(call.entry, call.depth, call.is_maximizing, call.player)

\* C8 witness: a full-window search of depth 3 that pruned.
C8_Witness ==
    /\ SearchDone
    /\ call.alpha = -inf /\ call.beta = inf
    /\ call.depth = 3
    /\ ret.cuts > 0

---------------------------------------------------------------------------
(* Properties of the queries (specification SpecQuery) *)

\* Five cells in a row along one of the four directions, pos among them, all
\* of colour player once pos is.
CompletesFive(g, pos, player) ==
    \E k \in 1 .. 4 : \E off \in 0 .. 4 : \A t \in 0 .. 4 :
        LET r == pos[1] + (t - off) * directions[k][1]
            c == pos[2] + (t - off) * directions[k][2]
        IN  r \in Rows /\ c \in Rows /\ (<<r, c>> = pos \/ g[r][c] = player)

WinningCells(g, player) ==
    {pos \in Rows \X Rows : g[pos[1]][pos[2]] = 0 /\ CompletesFive(g, pos, player)}

NotAfter(a, b) == a[1] < b[1] \/ (a[1] = b[1] /\ a[2] <= b[2])

\* C4: _find_winning_move returns a move iff some empty cell completes a run
\* of five or more for the player, and then the first such cell in row-major order.
C4_FirstWinningCell ==
    call.name = "_find_winning_move" =>
        LET winning == WinningCells(call.entry, call.player)
        IN  IF winning = {} THEN ret.move = None
            ELSE ret.move \in winning /\ \A w \in winning : NotAfter(ret.move, w)

\* C4 witness: a grid with two winning cells at least.
C4_Witness ==
    /\ call.name = "_find_winning_move"
    /\ Cardinality(WinningCells(call.entry, call.player)) >= 2
    /\ ret.move # None

\* C7: _get_candidate_moves returns a non-empty sequence when the grid has an
\* empty cell, and only cells that are empty in the grid, none of them twice.
C7_CandidatesEmptyCells ==
    call.name = "_get_candidate_moves" =>
        /\ HasEmpty(call.entry) => Len(ret.moves) > 0
        /\ \A k \in 1 .. Len(ret.moves) :
              /\ IsCell(ret.moves[k])
              /\ call.entry[ret.moves[k][1]][ret.moves[k][2]] = 0
              /\ \A j \in 1 .. Len(ret.moves) : j # k => ret.moves[j] # ret.moves[k]

\* C7 witness: the empty board, where no cell has a neighbour.
C7_Witness ==
    /\ call.name = "_get_candidate_moves"
    /\ \A r \in Rows : \A c \in Rows : call.entry[r][c] = 0
    /\ Len(ret.moves) > 0

---------------------------------------------------------------------------
(* Properties of the engine called directly (specification SpecEngine) *)

ValidInput(player, g) == player \in {1, 2} /\ DOMAIN g = Rows

\* C11: get_move called with a player that is neither 1 nor 2, or with a
\* grid whose size is not the engine's, is rejected with a configuration
\* error before any search step or grid write, and returns no move.
C11_InvalidInputRejected ==
    (call.name = "get_move" /\ ~ValidInput(call.current_player, call.entry)) =>
        /\ ret.error = "ConfigurationError"
        /\ ret.move = None
        /\ ret.calls = 0
        /\ board = call.entry

---------------------------------------------------------------------------
(* Properties of the read-only queries (specification SpecReadOnly) *)

ReadOnlyQueries ==
    {"_find_winning_move", "_find_defensive_move", "_evaluate_move_threat"}
        \cup SuggestionQueries

\* C12: after _find_winning_move, _find_defensive_move, _evaluate_move_threat,
\* _find_threats, _find_winning_moves, _find_blocking_moves and
\* _find_attacking_moves return, also on the early return of a found move,
\* every cell of the grid has the value it had before the call.
C12_QueriesLeaveGrid ==
    call.name \in ReadOnlyQueries =>
        \A r \in Rows : \A c \in Rows : board[r][c] = call.entry[r][c]

\* C12 witness: _find_defensive_move returned early with a found move.
C12_Witness ==
    /\ call.name = "_find_defensive_move"
    /\ ret.move # None
    /\ ret.move # RowMajor[Len(RowMajor)]
    /\ board = call.entry

---------------------------------------------------------------------------
(* Properties of the root of a searching tier (specification SpecRoot) *)

RootDone == pc = "idle" /\ call.name = "get_move"

EmptyBoard(g) == \A r \in Rows : \A c \in Rows : g[r][c] = 0

\* Rows and columns center-2 .. center+2.
InCenterBox(move) ==
    LET center == board_size \div 2
    IN  Abs(move[1] - center) <= 2 /\ Abs(move[2] - center) <= 2

Members(s) == {s[k] : k \in 1 .. Len(s)}

---------------------------------------------------------------------------
(* Properties of the root selection (specification Spec) *)

\* Depth of the reply ply the root of a tier searches.
ReplyDepth(difficulty) ==
    IF difficulty = "intermediate" THEN 2
    ELSE IF difficulty = "advance" THEN 4
    ELSE 6

\* The compared score of every root candidate, in generation order.
RECURSIVE ComparedScores(_, _, _, _, _)
ComparedScores(g, difficulty, player, moves, k) ==
    IF k > Len(moves) THEN <<>>
    ELSE LET move == moves[k]
             val == _minimax(Place(g, move, player), ReplyDepth(difficulty), FALSE,
                             player, -inf, inf).val
             score == IF difficulty = "expert"
                      THEN AddWeight(val, _position_weight(move[1], move[2]))
                      ELSE val
         IN  <<score>> \o ComparedScores(g, difficulty, player, moves, k + 1)

SearchReturned ==
    /\ GetMoveDone
    /\ Searches(call.difficulty, call.entry, call.current_player)
    /\ ret.error = "none"

\* C14: the move a searching tier returns is the first candidate, in
\* generation order, whose compared score is the maximum over all root
\* candidates; it is the first candidate when no score exceeds -infinity.
C14_FirstOfTheBest ==
    SearchReturned =>
        LET moves == RootMoves(call.difficulty, call.entry, call.current_player)
            scores == ComparedScores(call.entry, call.difficulty, call.current_player, moves, 1)
        IN  \E k \in 1 .. Len(moves) :
                /\ ret.move = moves[k]
                /\ \A j \in 1 .. Len(moves) : scores[j] <= scores[k]
                /\ \A j \in 1 .. (k - 1) : scores[j] < scores[k]

\* C14 witness: the move returned is not the first candidate, and a later
\* candidate has the same score.
C14_Witness ==
    /\ SearchReturned
    /\ LET moves == RootMoves(call.difficulty, call.entry, call.current_player)
           scores == ComparedScores(call.entry, call.difficulty, call.current_player, moves, 1)
       IN  \E k \in 2 .. Len(moves) : \E j \in (k + 1) .. Len(moves) :
               ret.move = moves[k] /\ scores[j] = scores[k]

---------------------------------------------------------------------------
(* Properties of the terminal test (specification SpecSearch) *)

\* Five cells in a row, along one of the four directions, of the colour.
FiveOfColour(g, colour) ==
    \E r \in Rows : \E c \in Rows : \E k \in 1 .. 4 :
        \A t \in 0 .. 4 :
            LET rr == r + t * directions[k][1]
                cc == c + t * directions[k][2]
            IN  rr \in Rows /\ cc \in Rows /\ g[rr][cc] = colour

FiveOnGrid(g) == FiveOfColour(g, 1) \/ FiveOfColour(g, 2)

\* C15: when depth is 0 or the grid already holds a five-in-row of either
\* colour, _minimax returns _evaluate_board(grid, player) whatever the
\* maximizing flag and the window, and places no stone; the search never
\* places a stone on a grid that holds a five-in-row.
C15_TerminalIsEvaluation ==
    /\ (SearchDone /\ (call.depth = 0 \/ FiveOnGrid(call.entry))) =>
          /\ ret.val = _evaluate_board(call.entry, call.player)
          /\ ret.calls = 1
          /\ board = call.entry
    /\ pc = "loop" => (Top.depth > 0 /\ ~FiveOnGrid(board))

\* C15 witness: a search of positive depth that found a five-in-row of
\* colour 2 on its grid and returned at once.
C15_Witness ==
    /\ SearchDone
    /\ call.depth > 0
    /\ FiveOfColour(call.entry, 2)
    /\ ~FiveOfColour(call.entry, 1)
    /\ ret.calls = 1

---------------------------------------------------------------------------
(* Properties of the candidate rule (specification SpecQuery) *)

Cells == Rows \X Rows

EmptyCells(g) == {pos \in Cells : g[pos[1]][pos[2]] = 0}

\* Chebyshev distance of two cells.
Chebyshev(p, q) == Max(Abs(p[1] - q[1]), Abs(p[2] - q[2]))

\* Empty cells with an occupied cell of the board within distance 2.
NearStone(g) ==
    {pos \in EmptyCells(g) :
        \E q \in Cells : q # pos /\ Chebyshev(pos, q) <= 2 /\ g[q[1]][q[2]] # 0}

\* Empty cells within distance 2 of the board center.
NearCenter(g) ==
    {pos \in EmptyCells(g) :
        Chebyshev(pos, <<board_size \div 2, board_size \div 2>>) <= 2}

StrictlyBefore(a, b) == a[1] < b[1] \/ (a[1] = b[1] /\ a[2] < b[2])

---------------------------------------------------------------------------
(* Properties of the Expert candidate ordering (specification SpecQuery) *)

\* Position of a move in a sequence of distinct moves.
IndexIn(s, move) == CHOOSE k \in 1 .. Len(s) : s[k] = move

ThreatOf(g, move, player) == _evaluate_move_threat(g, move, player).threat_score

\* C17: _get_priority_moves returns at most 10 moves, all of them candidate
\* moves of the grid, in non-increasing order of _evaluate_move_threat;
\* moves of equal threat keep their generation order, and no candidate left
\* out has a strictly higher threat than a move kept.
C17_PriorityOrder ==
    call.name = "_get_priority_moves" =>
        LET candidates == _get_candidate_moves(call.entry)
            moves == ret.moves
            Threat(move) == ThreatOf(call.entry, move, call.player)
        IN  /\ Len(moves) <= 10
            /\ Members(moves) \subseteq Members(candidates)
            /\ \A j \in 1 .. Len(moves) : \A k \in (j + 1) .. Len(moves) :
                  /\ Threat(moves[j]) >= Threat(moves[k])
                  /\ Threat(moves[j]) = Threat(moves[k])
                        => IndexIn(candidates, moves[j]) < IndexIn(candidates, moves[k])
            /\ \A left \in Members(candidates) \ Members(moves) :
               \A kept \in Members(moves) : Threat(left) <= Threat(kept)

\* C17 witness: more than 10 candidates, and the first move returned is not
\* the first candidate.
C17_Witness ==
    /\ call.name = "_get_priority_moves"
    /\ Len(_get_candidate_moves(call.entry)) > 10
    /\ Len(ret.moves) = 10
    /\ ret.moves[1] # _get_candidate_moves(call.entry)[1]

---------------------------------------------------------------------------
(* Properties of the session (specification Spec) *)

\* C18: after any sequence of set_difficulty calls, the search depth the
\* session exposes (HumanVsAI.max_depth) is the depth bound to the current
\* tier: 0 for beginner, 2 for intermediate, 4 for advance, 6 for expert.
C18_SessionDepthOfTier == hv_max_depth = _get_max_depth(current_difficulty)

---------------------------------------------------------------------------
(* Properties of the Beginner tier (specification Spec) *)

\* The moves get_move of Beginner returns on grid g for player, over every
\* draw of random.choice, with random.random() < 0.3 true (defend) or false.
BeginnerMoves(g, player, defend) ==
    {get_move("beginner", g, player, defend, pick).move :
        pick \in 1 .. Len(_get_empty_positions(g))}

\* The first cell of a non-empty set of cells in row-major order.
FirstCell(cells) == CHOOSE a \in cells : \A b \in cells : NotAfter(a, b)

BeginnerDone == GetMoveDone /\ call.difficulty = "beginner" /\ HasEmpty(call.entry)

\* C19: on a grid with an empty cell, the moves Beginner can return over all
\* random outcomes are exactly the empty cells of the grid, not the pruned
\* candidate set; the only result that does not depend on the random choice
\* is the opponent's row-major-first winning cell, an empty cell itself.
C19_BeginnerAnyEmptyCell ==
    BeginnerDone =>
        LET g == call.entry
            player == call.current_player
            threats == WinningCells(g, 3 - player)
        IN  /\ ret.move \in EmptyCells(g)
            /\ BeginnerMoves(g, player, TRUE) \cup BeginnerMoves(g, player, FALSE)
                  = EmptyCells(g)
            /\ BeginnerMoves(g, player, FALSE) = EmptyCells(g)
            /\ BeginnerMoves(g, player, TRUE) =
                  IF threats = {} THEN EmptyCells(g) ELSE {FirstCell(threats)}
            /\ threats # {} => FirstCell(threats) \in EmptyCells(g)

\* C19 witness: Beginner returned the block on a grid where some empty cell
\* is not a candidate move and a second empty cell exists.
C19_Witness ==
    /\ BeginnerDone
    /\ WinningCells(call.entry, 3 - call.current_player) # {}
    /\ ret.move = FirstCell(WinningCells(call.entry, 3 - call.current_player))
    /\ Members(_get_candidate_moves(call.entry)) # EmptyCells(call.entry)

---------------------------------------------------------------------------
(* Properties of the leaf evaluation (specification SpecQuery) *)

\* C20: for a grid of cells 0, 1 and 2 and a player P, _evaluate_board(grid, P)
\* is the negative of _evaluate_board(grid, 3 - P); the empty grid evaluates
\* to 0 for both players.
C20_ZeroSum ==
    call.name = "_evaluate_board" =>
        /\ ret.val = -_evaluate_board(call.entry, 3 - call.player)
        /\ EmptyBoard(call.entry) => ret.val = 0

\* C20 witness: a grid with runs of both colours that favours one of them.
C20_Witness ==
    /\ call.name = "_evaluate_board"
    /\ \E r \in Rows : \E c \in Rows :
          call.entry[r][c] = 1 /\ _evaluate_position(call.entry, r, c, 1) > 0
    /\ \E r \in Rows : \E c \in Rows :
          call.entry[r][c] = 2 /\ _evaluate_position(call.entry, r, c, 2) > 0
    /\ ret.val > 0

====
